---- MODULE Spec2Model ----
(***************************************************************************)
(* Model of the PostgreSQL user/role reconciliation controller             *)
(* (zilando-CRDs/controller/controller.py).                                *)
(*                                                                         *)
(* The state is the cluster document (ConfigMap), the state file, the      *)
(* database catalogue (roles, login capability, role membership), the      *)
(* pooled connection and the position of the single-threaded loop inside   *)
(* one reconciliation cycle together with the locals of reconcile_users.   *)
(* Every gateway call is one step; the statements it hands to the cursor   *)
(* are kept in `sql`, as a recording test double of the cursor would.      *)
(***************************************************************************)
EXTENDS Integers, Sequences, FiniteSets, TLC

VARIABLES
    configmap,        \* the cluster document: [kind, users]
    stateFile,        \* STATE_FILE on disk: [kind, data]
    db,               \* pg_roles / pg_auth_members: [kind, member]
    pooled,           \* the idle pooled connection: "none", "txn", "autocommit"
    dryRun,           \* Config.DRY_RUN
    pc,               \* position of run_reconciliation_loop / reconcile_users
    desired,          \* desired_users
    previous_state,   \* previous_state
    actual_users,     \* actual_users
    existing_roles,   \* existing_roles of reconcile_roles
    todo,             \* items the current for-loop has not visited yet
    stats,            \* ReconciliationStats of the running cycle
    sql,              \* statements handed to cursor.execute by the last step
    call,             \* the mutating gateway call made by the last step
    hist,             \* per-cycle observations (calls made, failures, ...)
    carry,            \* what is remembered of the previous cycle
    used,             \* connections checked out of the pool (len(pool._used))
    metrics,          \* the Metrics object
    totals,           \* what the iterations of the loop handed to the metrics
    ret               \* the value returned by the operation applied last

vars == << configmap, stateFile, db, pooled, dryRun, pc, desired, previous_state,
           actual_users, existing_roles, todo, stats, sql, call, hist, carry,
           used, metrics, totals, ret >>

----------------------------------------------------------------------------
(* Identifiers.  Users and group roles share PostgreSQL's single role      *)
(* namespace.                                                              *)

SYSTEM_ROLES == {"postgres"}

DB_USER == "postgres"

DB_NAME == "postgres"

UserNames == {"alice", "ro", "postgres"}

Names == UserNames

NoPrivileges == << >>

UserSpec(u, d, rs, pv) ==
    [username |-> u, database |-> d, roles |-> rs, privileges |-> pv]

\* Python's order on the identifiers (str.__lt__)
NameRank(n) == CASE n = "alice" -> 1 [] n = "postgres" -> 2 [] n = "ro" -> 3 [] OTHER -> 4

\* seeded fault: the list as written, not sorted
Unsorted(xs) == xs

\* sorted(xs): the same elements, duplicates kept, in ascending order
RECURSIVE Sorted(_)
Sorted(xs) ==
    IF xs = << >> THEN << >>
    ELSE LET least == CHOOSE i \in DOMAIN xs :
                        \A j \in DOMAIN xs : NameRank(xs[i]) <= NameRank(xs[j])
             others == [ k \in 1..(Len(xs) - 1) |-> IF k < least THEN xs[k] ELSE xs[k + 1] ]
         IN  << xs[least] >> \o Sorted(others)

\* UserSpec.__hash__: the text that goes into sha256, which is taken to be
\* free of collisions; the privileges are left out when there are none
Hash(spec) ==
    << spec.username, spec.database, Sorted(spec.roles) >>
    \o (IF spec.privileges # << >> THEN << spec.privileges >> ELSE << >>)

\* role lists a document may give each username
RoleLists(u) ==
    IF u = "alice" THEN { << >>, <<"ro">>, <<"postgres">>, <<"ro", "postgres">> }
    ELSE { << >> }

Range(s) == { s[i] : i \in DOMAIN s }

\* the documents of shape {users: [UserSpec, ...]}, as the map parse builds
UserMaps ==
    UNION { [ S -> UNION { {UserSpec(u, "app", rs, NoPrivileges) : rs \in RoleLists(u)}
                           : u \in S } ]
            : S \in SUBSET UserNames }

WellFormed(m) == \A u \in DOMAIN m : m[u].username = u

DesiredMaps == { m \in UserMaps : WellFormed(m) }

EmptyMap == [u \in {} |-> UserSpec(u, "app", << >>, NoPrivileges)]

----------------------------------------------------------------------------
(* SQL statements as the cursor receives them: op, first identifier, second *)
(* identifier (or "").                                                      *)

Stmt(op, a, b) == [op |-> op, a |-> a, b |-> b]

\* the role a statement is issued against
Target(s) == IF s.op \in {"GRANT", "REVOKE"} THEN s.b ELSE s.a

\* to_revoke / to_grant are Python sets: one fixed iteration order per set
RECURSIVE SetToSeq(_)
SetToSeq(S) ==
    IF S = {} THEN << >>
    ELSE LET x == CHOOSE y \in S : TRUE IN <<x>> \o SetToSeq(S \ {x})

RECURSIVE Flatten(_)
Flatten(ss) == IF ss = << >> THEN << >> ELSE Head(ss) \o Flatten(Tail(ss))

\* _grant_privileges: one GRANT <privilege> ON <object> per listed keyword;
\* the keyword goes into the statement as given (sql.SQL(privilege))
GrantPrivileges(spec) ==
    Flatten([ i \in DOMAIN spec.privileges |->
                [ j \in DOMAIN spec.privileges[i][2] |->
                    Stmt("GRANT PRIV", spec.username, spec.privileges[i][2][j]) ] ])

CreateRoleStmts(role_name) == << Stmt("CREATE ROLE", role_name, "") >>

CreateUserStmts(spec) ==
    << Stmt("CREATE USER", spec.username, ""),
       Stmt("GRANT CONNECT", spec.username, spec.database) >>
    \o [ i \in DOMAIN spec.roles |-> Stmt("GRANT", spec.roles[i], spec.username) ]
    \o (IF spec.privileges # << >> THEN GrantPrivileges(spec) ELSE << >>)

ToRevoke(old_roles, new_roles) == old_roles \ new_roles

ToGrant(old_roles, new_roles) == new_roles \ old_roles

\* seeded fault: the grants are issued before the revokes
UpdateUserRolesGrantFirst(username, old_roles, new_roles) ==
    LET rv == SetToSeq(ToRevoke(old_roles, new_roles))
        gr == SetToSeq(ToGrant(old_roles, new_roles))
    IN  [ i \in DOMAIN gr |-> Stmt("GRANT", gr[i], username) ]
        \o [ i \in DOMAIN rv |-> Stmt("REVOKE", rv[i], username) ]

UpdateUserRolesStmts(username, old_roles, new_roles) ==
    LET rv == SetToSeq(ToRevoke(old_roles, new_roles))
        gr == SetToSeq(ToGrant(old_roles, new_roles))
    IN  [ i \in DOMAIN rv |-> Stmt("REVOKE", rv[i], username) ]
        \o [ i \in DOMAIN gr |-> Stmt("GRANT", gr[i], username) ]

DropUserStmts(username) ==
    << Stmt("REVOKE ALL", username, DB_NAME),
       Stmt("REASSIGN OWNED", username, DB_USER),
       Stmt("DROP OWNED", username, ""),
       Stmt("DROP USER", username, "") >>

----------------------------------------------------------------------------
(* The database: what PostgreSQL does with each statement.                 *)

Exists(d, r) == d.kind[r] # "absent"

\* whether the server accepts the statement in catalogue state d
Accepts(d, s) ==
    CASE s.op \in {"CREATE ROLE", "CREATE USER"} -> ~Exists(d, s.a)
      [] s.op = "GRANT" -> /\ Exists(d, s.a) /\ Exists(d, s.b)
                           /\ s.a # s.b /\ <<s.a, s.b>> \notin d.member
      [] s.op = "REVOKE" -> Exists(d, s.a) /\ Exists(d, s.b)
      [] s.op = "DROP USER" -> TRUE
      [] OTHER -> Exists(d, s.a)

\* the catalogue after the statement took effect
Apply(d, s) ==
    CASE s.op = "CREATE ROLE" -> [d EXCEPT !.kind[s.a] = "group"]
      [] s.op = "CREATE USER" -> [d EXCEPT !.kind[s.a] = "login"]
      [] s.op = "GRANT" -> [d EXCEPT !.member = @ \cup {<<s.b, s.a>>}]
      [] s.op = "REVOKE" -> [d EXCEPT !.member = @ \ {<<s.b, s.a>>}]
      [] s.op = "DROP USER" ->
            [d EXCEPT !.kind[s.a] = "absent",
                      !.member = { m \in @ : m[1] # s.a /\ m[2] # s.a }]
      [] OTHER -> d

\* cursor.execute over the statements in order, stopping at the first one that
\* raises: the one the server rejects, or the one hit by the injected fault
RECURSIVE Execute(_, _, _, _)
Execute(stmts, d, i, failAt) ==
    IF i > Len(stmts) THEN [db |-> d, n |-> Len(stmts), ok |-> TRUE]
    ELSE IF i = failAt \/ ~Accepts(d, stmts[i]) THEN [db |-> d, n |-> i, ok |-> FALSE]
    ELSE Execute(stmts, Apply(d, stmts[i]), i + 1, failAt)

\* injected faults: none, or statement `at` raises; "lost" closes the connection
Faults(n) ==
    { [at |-> 0, kind |-> "none"] }
    \cup { [at |-> k, kind |-> kd] : k \in 1..n, kd \in {"error", "lost"} }

\* get_connection: the idle connection, or a new one (which may be refused)
\* when the pool holds none
Acquire(p) == IF p = "none" THEN {"refused", "txn"} ELSE {p}

\* return_connection: putconn takes the connection out of the checked-out set
return_connection_never(checked_out) == checked_out

return_connection(checked_out) == checked_out - 1

\* A gateway mutation on connection `conn`: [ok, db, pooled, sql, durable, held].
\* `durable` is the number of statements whose effect outlasts the call and
\* `held` the number of connections the call leaves checked out.
\* Outside autocommit the statements are one transaction: commit on success,
\* rollback on failure.  In autocommit every accepted statement is durable at
\* once and commit()/rollback() change nothing.
Transact(stmts, d, conn, setAutocommit, fault) ==
    LET mode == IF setAutocommit THEN "autocommit" ELSE conn
        r    == Execute(stmts, d, 1, fault.at)
        lost == ~r.ok /\ fault.kind = "lost" /\ r.n = fault.at
    IN  [ ok     |-> r.ok,
          db     |-> IF r.ok \/ mode = "autocommit" THEN r.db ELSE d,
          pooled |-> IF lost THEN "none" ELSE mode,
          sql    |-> SubSeq(stmts, 1, r.n),
          durable |-> IF r.ok THEN Len(stmts)
                      ELSE IF mode = "autocommit" THEN r.n - 1 ELSE 0,
          held   |-> return_connection(1) ]

\* the result of a call that could not get a connection
Refused(d) ==
    [ok |-> FALSE, db |-> d, pooled |-> "none", sql |-> << >>, durable |-> 0, held |-> 0]

\* the result of a dry-run call: logged, nothing acquired or issued
DryRunResult(d, p) ==
    [ok |-> TRUE, db |-> d, pooled |-> p, sql |-> << >>, durable |-> 0, held |-> 0]

\* every outcome of a mutating gateway method
GatewayOutcomes(stmts, d, p, setAutocommit, dry_run) ==
    IF dry_run THEN { DryRunResult(d, p) }
    ELSE UNION { IF c = "refused" THEN { Refused(d) }
                 ELSE { Transact(stmts, d, c, setAutocommit, f) : f \in Faults(Len(stmts)) }
                 : c \in Acquire(p) }

create_role(role_name, d, p, dry_run) ==
    GatewayOutcomes(CreateRoleStmts(role_name), d, p, TRUE, dry_run)

\* seeded fault: create_user without the DRY_RUN test
create_user_always(spec, d, p, dry_run) ==
    GatewayOutcomes(CreateUserStmts(spec), d, p, FALSE, FALSE)

create_user(spec, d, p, dry_run) ==
    GatewayOutcomes(CreateUserStmts(spec), d, p, FALSE, dry_run)

drop_user(username, d, p, dry_run) ==
    GatewayOutcomes(DropUserStmts(username), d, p, FALSE, dry_run)

\* update_user_roles returns before the dry-run test when there is nothing to do
update_user_roles(username, old_roles, new_roles, d, p, dry_run) ==
    IF ToRevoke(old_roles, new_roles) = {} /\ ToGrant(old_roles, new_roles) = {}
    THEN { DryRunResult(d, p) }
    ELSE GatewayOutcomes(UpdateUserRolesStmts(username, old_roles, new_roles),
                         d, p, FALSE, dry_run)

\* the read queries: [ok, rows, pooled, held]
Query(rows, p) ==
    UNION { IF c = "refused"
            THEN { [ok |-> FALSE, rows |-> {}, pooled |-> "none", held |-> 0] }
            ELSE { [ok |-> TRUE, rows |-> rows, pooled |-> c, held |-> return_connection(1)],
                   [ok |-> FALSE, rows |-> {}, pooled |-> c, held |-> return_connection(1)],
                   [ok |-> FALSE, rows |-> {}, pooled |-> "none",
                    held |-> return_connection(1)] }
            : c \in Acquire(p) }

\* SELECT rolname FROM pg_roles WHERE rolname NOT IN (system roles)
fetch_existing_users(d, p) ==
    Query({ r \in Names : Exists(d, r) /\ r \notin SYSTEM_ROLES }, p)

\* ... AND NOT rolcanlogin
fetch_existing_roles(d, p) ==
    Query({ r \in Names : d.kind[r] = "group" /\ r \notin SYSTEM_ROLES }, p)

\* roles granted to username in pg_auth_members
fetch_user_roles(username, d, p) ==
    Query({ r \in Names : <<username, r>> \in d.member }, p)

----------------------------------------------------------------------------
(* The cluster document and the state file.                                *)

\* what read_namespaced_config_map can hold: no document (404), a users.yaml
\* that is not YAML or has a record without username, one that is YAML of
\* another shape, and a well-formed list of users
ConfigMaps ==
    { [kind |-> k, users |-> EmptyMap] : k \in {"notfound", "invalid", "badshape"} }
    \cup { [kind |-> "yaml", users |-> m] : m \in DesiredMaps }

\* seeded fault: a missing document read as an empty one
ConfigNeverMissing(cm) == FALSE

\* fetch_configmap: None when the API answers 404, else the users.yaml text
ConfigMissing(cm) == cm.kind = "notfound"

\* parse_desired_users: [raised, users].  `not yaml_content` gives {};
\* YAMLError and KeyError are caught and give {}; any other exception leaves
\* the function
parse_desired_users(cm) ==
    CASE cm.kind = "yaml" -> [raised |-> FALSE, users |-> cm.users]
      [] cm.kind \in {"invalid", "notfound"} -> [raised |-> FALSE, users |-> EmptyMap]
      [] OTHER -> [raised |-> TRUE, users |-> EmptyMap]

MAX_RETRIES == 5

RETRY_BACKOFF_BASE == 2

RECURSIVE Pow(_, _)
Pow(b, k) == IF k = 0 THEN 1 ELSE b * Pow(b, k - 1)

\* what the API server answers to the n-th read, n = 1, 2, ...
ApiAnswers == {"ok", "nofield", "404", "error"}

\* `elif retry_count < Config.MAX_RETRIES`
RetryAllowed(retry_count) == retry_count < MAX_RETRIES

\* The retry scheme of fetch_configmap and get_user_password: the read is
\* attempt retry_count + 1; 404 gives None; another ApiException sleeps
\* RETRY_BACKOFF_BASE ** retry_count and calls again with retry_count + 1
\* while the retries last, and is raised again after that.
\* [result, attempts, slept]
RECURSIVE ReadWithRetry(_, _)
ReadWithRetry(api, retry_count) ==
    LET answer == api[retry_count + 1]
    IN  IF answer \in {"ok", "nofield"}
        THEN [result |-> answer, attempts |-> 1, slept |-> << >>]
        ELSE IF answer = "404"
        THEN [result |-> "None", attempts |-> 1, slept |-> << >>]
        ELSE IF RetryAllowed(retry_count)
        THEN LET again == ReadWithRetry(api, retry_count + 1)
             IN  [ result |-> again.result,
                   attempts |-> 1 + again.attempts,
                   slept |-> << Pow(RETRY_BACKOFF_BASE, retry_count) >> \o again.slept ]
        ELSE [result |-> "raise", attempts |-> 1, slept |-> << >>]

\* fetch_configmap(name, namespace): cm.data.get("users.yaml", "")
fetch_configmap(api) ==
    LET r == ReadWithRetry(api, 0)
    IN  [r EXCEPT !.result = IF @ \in {"ok", "nofield"} THEN "text" ELSE @]

\* get_user_password(username, namespace): None when the secret has no
\* password field
get_user_password(api) ==
    LET r == ReadWithRetry(api, 0)
    IN  [r EXCEPT !.result = IF @ = "ok" THEN "password"
                             ELSE IF @ = "nofield" THEN "None" ELSE @]

\* JSON values, as json.dump writes them and json.load reads them back; an
\* object is the sequence of its <<key, value>> members in document order
JString(s) == [t |-> "string", v |-> s]

JArray(items) == [t |-> "array", v |-> items]

JObject(members) == [t |-> "object", v |-> members]

JNull == [t |-> "null", v |-> << >>]

Keys(obj) == { obj.v[i][1] : i \in DOMAIN obj.v }

Member(obj, key) == obj.v[CHOOSE i \in DOMAIN obj.v : obj.v[i][1] = key][2]

\* Optional[Dict[str, List[str]]]: None is written as null
JsonOfPrivileges(pv) ==
    IF pv = NoPrivileges THEN JNull
    ELSE JObject([ i \in DOMAIN pv |->
                     << pv[i][1],
                        JArray([ j \in DOMAIN pv[i][2] |-> JString(pv[i][2][j]) ]) >> ])

\* seeded fault: the record written without its privileges
asdict_without_privileges(spec) ==
    JObject(<< <<"username", JString(spec.username)>>,
               <<"database", JString(spec.database)>>,
               <<"roles", JArray([ i \in DOMAIN spec.roles |-> JString(spec.roles[i]) ])>>,
               <<"privileges", JNull>> >>)

\* asdict(spec): the four fields in declaration order
asdict(spec) ==
    JObject(<< <<"username", JString(spec.username)>>,
               <<"database", JString(spec.database)>>,
               <<"roles", JArray([ i \in DOMAIN spec.roles |-> JString(spec.roles[i]) ])>>,
               <<"privileges", JsonOfPrivileges(spec.privileges)>> >>)

\* json.dump({username: asdict(spec)})
json_dump(users) ==
    LET order == SetToSeq(DOMAIN users)
    IN  JObject([ i \in DOMAIN order |-> << order[i], asdict(users[order[i]]) >> ])

PrivilegesOfJson(j) ==
    IF j.t = "null" THEN NoPrivileges
    ELSE [ i \in DOMAIN j.v |->
             << j.v[i][1], [ k \in DOMAIN j.v[i][2].v |-> j.v[i][2].v[k].v ] >> ]

\* UserSpec(**spec): privileges defaults to None
UserSpecOfJson(j) ==
    UserSpec(Member(j, "username").v,
             Member(j, "database").v,
             [ i \in DOMAIN Member(j, "roles").v |-> Member(j, "roles").v[i].v ],
             IF "privileges" \in Keys(j) THEN PrivilegesOfJson(Member(j, "privileges"))
             ELSE NoPrivileges)

\* data.items() needs an object; UserSpec(**spec) needs an object with the
\* three required fields and no field it does not know
Decodable(data) ==
    /\ data.t = "object"
    /\ \A i \in DOMAIN data.v :
          /\ data.v[i][2].t = "object"
          /\ {"username", "database", "roles"} \subseteq Keys(data.v[i][2])
          /\ Keys(data.v[i][2]) \subseteq {"username", "database", "roles", "privileges"}

\* the state file: absent; "json", text that json.load decodes to `data`;
\* "corrupt", text that it does not decode (empty, or cut in a write)
NoStateFile == [kind |-> "absent", data |-> JNull]

CorruptStateFile == [kind |-> "corrupt", data |-> JNull]

\* the file a complete save_state(users) leaves
StateFileOf(users) == [kind |-> "json", data |-> json_dump(users)]

\* a file of JSON that is not a map of records: the text `[]`
ForeignStateFile == [kind |-> "json", data |-> JArray(<< >>)]

\* load_state raises: only JSONDecodeError and IOError are caught
LoadStateRaises(f) == f.kind = "json" /\ ~Decodable(f.data)

\* load_state: {} when the file is absent or does not decode
load_state(f) ==
    IF f.kind = "json" /\ Decodable(f.data)
    THEN [ u \in Keys(f.data) |-> UserSpecOfJson(Member(f.data, u)) ]
    ELSE EmptyMap

\* save_state: open(state_file, 'w') truncates, json.dump writes.  IOError is
\* caught: at open the file is as before, during the write it is left cut
save_state(f, users) == { StateFileOf(users), f, CorruptStateFile }

----------------------------------------------------------------------------
(* reconcile_roles / detect_drift / reconcile_users: the pure parts.       *)

AllDesiredRoles(desired_users) ==
    UNION { Range(desired_users[u].roles) : u \in DOMAIN desired_users }

RolesToCreate(desired_users, existing) == AllDesiredRoles(desired_users) \ existing

\* seeded fault: users_to_delete without the subtraction
detect_drift_all_live(desired_users, actual) ==
    [ users_to_create |-> DOMAIN desired_users \ actual,
      users_to_delete |-> actual,
      users_to_update |-> DOMAIN desired_users \cap actual ]

\* seeded fault: an empty desired map deletes nobody
detect_drift_keeps_all_when_empty(desired_users, actual) ==
    [ users_to_create |-> DOMAIN desired_users \ actual,
      users_to_delete |-> IF desired_users = EmptyMap THEN {}
                          ELSE actual \ DOMAIN desired_users,
      users_to_update |-> DOMAIN desired_users \cap actual ]

detect_drift(desired_users, actual) ==
    [ users_to_create |-> DOMAIN desired_users \ actual,
      users_to_delete |-> actual \ DOMAIN desired_users,
      users_to_update |-> DOMAIN desired_users \cap actual ]

\* seeded fault: the deletion loop without the previous_state test
AllDeletions(users_to_delete, prev) == users_to_delete

\* the users the deletion loop calls drop_user for
OwnedDeletions(users_to_delete, prev) ==
    { u \in users_to_delete : u \in DOMAIN prev }

\* seeded fault: a user without a last-applied record counts as changed
RolesChangedOrUnknown(prev, desired_users, u) ==
    u \in DOMAIN prev => Range(prev[u].roles) # Range(desired_users[u].roles)

\* the test of the update loop before it looks at the database
RolesChanged(prev, desired_users, u) ==
    u \in DOMAIN prev /\ Range(prev[u].roles) # Range(desired_users[u].roles)

NewStats ==
    [ users_created |-> 0, users_updated |-> 0, users_deleted |-> 0,
      roles_created |-> 0, roles_deleted |-> 0, drift_detected |-> 0, errors |-> 0 ]

\* seeded fault: the creation loop moved before the deletion loop
PhaseCreateFirst(phase) ==
    CASE phase = "create_roles" -> "create"
      [] phase = "create" -> "delete"
      [] phase = "delete" -> "update"
      [] phase = "update" -> "save"

\* the loops of reconcile_users in program order
PhaseAfter(phase) ==
    CASE phase = "create_roles" -> "delete"
      [] phase = "delete" -> "create"
      [] phase = "create" -> "update"
      [] phase = "update" -> "save"

\* what the loop of a phase iterates over
LoopItems(phase, desired_users, prev, actual) ==
    LET d == detect_drift(desired_users, actual)
    IN  CASE phase = "delete" -> OwnedDeletions(d.users_to_delete, prev)
          [] phase = "create" -> d.users_to_create
          [] phase = "update" -> d.users_to_update
          [] OTHER -> {}

\* drift_count = len(users_to_create) + len(users_to_delete)
DriftCount(desired_users, actual) ==
    LET d == detect_drift(desired_users, actual)
    IN  Cardinality(d.users_to_create) + Cardinality(d.users_to_delete)

----------------------------------------------------------------------------
(* Observation variables.                                                  *)

NoCall == [op |-> "none", name |-> "", ok |-> TRUE, durable |-> 0]

Call(op, name, ok) == [op |-> op, name |-> name, ok |-> ok, durable |-> 0]

\* a gateway call with result r
GatewayCall(op, name, r) == [op |-> op, name |-> name, ok |-> r.ok, durable |-> r.durable]

NewHist(f) ==
    [ calls |-> {},           \* <<op, name>> of the mutating calls made
      failed |-> {},          \* those that raised
      roleStmts |-> {},       \* roles a CREATE ROLE statement was issued for
      stateAtStart |-> f,     \* the state file when the cycle began
      secretAbsent |-> FALSE, \* a password lookup gave None or raised
      liveViewFailed |-> FALSE, \* fetch_existing_users or reconcile_roles' fetch raised
      loadRaised |-> FALSE,   \* load_state raised
      outcome |-> "running" ] \* "completed", "aborted" (return), "raised"

\* clean: the cycle before this one ran to its end, not in dry-run, with
\* stats.errors = 0, and left the desired spec in the state file, and neither
\* the document nor the database was touched from outside since
NoCarry == [clean |-> FALSE]

Observe(h, c, issued) ==
    [h EXCEPT !.calls = @ \cup {<<c.op, c.name>>},
              !.failed = IF c.ok THEN @ ELSE @ \cup {<<c.op, c.name>>},
              !.roleStmts = @ \cup { issued[i].a : i \in
                                       { j \in DOMAIN issued : issued[j].op = "CREATE ROLE" } }]

Bump(st, field) == [st EXCEPT ![field] = @ + 1]

\* Metrics.__init__
NewMetrics ==
    [ reconciliation_count |-> 0, last_reconciliation_timestamp |-> 0,
      drift_count |-> 0, users_managed |-> 0, roles_managed |-> 0,
      last_error_timestamp |-> 0, error_count |-> 0 ]

\* seeded fault: the errors of a cycle are recorded only when the cycle
\* reported drift
record_reconciliation_drift_only(m, st, now) ==
    [m EXCEPT !.reconciliation_count = @ + 1,
              !.last_reconciliation_timestamp = now,
              !.drift_count = @ + st.drift_detected,
              !.error_count = IF st.drift_detected > 0 THEN @ + st.errors ELSE @,
              !.last_error_timestamp = IF st.errors > 0 THEN now ELSE @]

\* Metrics.record_reconciliation, with time.time() = now
record_reconciliation(m, st, now) ==
    [m EXCEPT !.reconciliation_count = @ + 1,
              !.last_reconciliation_timestamp = now,
              !.drift_count = @ + st.drift_detected,
              !.error_count = @ + st.errors,
              !.last_error_timestamp = IF st.errors > 0 THEN now ELSE @]

\* what the iterations so far should have added up to, and the clock
NoTotals == [iterations |-> 0, drift |-> 0, errors |-> 0, clock |-> 1]

NoReturn == [op |-> "none"]

----------------------------------------------------------------------------
(* The state after PostgresUserController() and before the first cycle.    *)

InitialCatalogues ==
    { [ kind |-> [ r \in Names |-> IF r \in SYSTEM_ROLES THEN "login"
                                   ELSE IF r = "alice" THEN a ELSE g ],
        member |-> {} ]
      : a \in {"absent", "login"}, g \in {"absent", "group"} }

\* what the state file path can hold when the controller starts
InitialStateFiles == { NoStateFile, CorruptStateFile, ForeignStateFile }

Init ==
    /\ configmap \in ConfigMaps
    /\ stateFile \in InitialStateFiles
    /\ db \in InitialCatalogues
    /\ pooled = "txn"
    /\ dryRun \in BOOLEAN
    /\ pc = "sleep"
    /\ desired = EmptyMap
    /\ previous_state = EmptyMap
    /\ actual_users = {}
    /\ existing_roles = {}
    /\ todo = {}
    /\ stats = NewStats
    /\ sql = << >>
    /\ call = NoCall
    /\ hist = NewHist(stateFile)
    /\ carry = NoCarry
    /\ used = 0
    /\ metrics = NewMetrics
    /\ totals = NoTotals
    /\ ret = NoReturn

----------------------------------------------------------------------------
(* One iteration of run_reconciliation_loop.                               *)

\* seeded fault: the first error of a cycle ends its loops
RECURSIVE AfterLoopStopOnError(_, _, _)
AfterLoopStopOnError(phase, rest, st) ==
    IF st.errors > 0 THEN [pc |-> "save", todo |-> {}, stats |-> st]
    ELSE IF rest # {} THEN [pc |-> phase, todo |-> rest, stats |-> st]
    ELSE IF PhaseAfter(phase) = "save" THEN [pc |-> "save", todo |-> {}, stats |-> st]
    ELSE AfterLoopStopOnError(PhaseAfter(phase),
                   LoopItems(PhaseAfter(phase), desired, previous_state, actual_users),
                   IF phase = "create_roles"
                   THEN [st EXCEPT !.drift_detected = DriftCount(desired, actual_users)]
                   ELSE st)

\* Control after a pass of a for-loop with `rest` still to visit: the same
\* loop, or the first later loop that has items, or the save.  Leaving
\* reconcile_roles runs detect_drift and sets stats.drift_detected.
RECURSIVE AfterLoop(_, _, _)
AfterLoop(phase, rest, st) ==
    IF rest # {} THEN [pc |-> phase, todo |-> rest, stats |-> st]
    ELSE IF PhaseAfter(phase) = "save" THEN [pc |-> "save", todo |-> {}, stats |-> st]
    ELSE AfterLoop(PhaseAfter(phase),
                   LoopItems(PhaseAfter(phase), desired, previous_state, actual_users),
                   IF phase = "create_roles"
                   THEN [st EXCEPT !.drift_detected = DriftCount(desired, actual_users)]
                   ELSE st)

Goto(next) == pc' = next.pc /\ todo' = next.todo /\ stats' = next.stats

\* seeded fault: the failed fetch is logged and the cycle goes on to its tail
LeaveToSave(st, how) ==
    /\ pc' = "save"
    /\ stats' = IF how = "raised" THEN Bump(st, "errors") ELSE st
    /\ hist' = [hist EXCEPT !.liveViewFailed = TRUE]
    /\ todo' = {}

\* a fetch of the live view raised: `return` from reconcile_users, or the
\* exception caught by the loop (which adds one to stats.errors); the cycle
\* is over, record_reconciliation is next
Leave(st, how) ==
    /\ pc' = "record"
    /\ stats' = IF how = "raised" THEN Bump(st, "errors") ELSE st
    /\ hist' = [hist EXCEPT !.outcome = how, !.liveViewFailed = TRUE]
    /\ todo' = {}

\* reconcile_users up to load_state: fetch_configmap (None on 404; raises when
\* the retries are used up), parse_desired_users, load_state
FetchDesired ==
    /\ pc = "sleep"
    /\ sql' = << >> /\ call' = NoCall
    /\ UNCHANGED used
    /\ UNCHANGED << configmap, stateFile, db, pooled, dryRun, actual_users,
                    existing_roles, carry,
                    metrics, totals, ret >>
    /\ \E apiFails \in BOOLEAN :
         LET parsed == parse_desired_users(configmap)
             h == NewHist(stateFile)
         IN  IF apiFails
             THEN /\ pc' = "record" /\ todo' = {}
                  /\ stats' = Bump(NewStats, "errors")
                  /\ hist' = [h EXCEPT !.outcome = "raised"]
                  /\ UNCHANGED << desired, previous_state >>
             ELSE IF ConfigMissing(configmap)
             THEN /\ pc' = "record" /\ todo' = {}
                  /\ stats' = Bump(NewStats, "errors")
                  /\ hist' = [h EXCEPT !.outcome = "aborted"]
                  /\ UNCHANGED << desired, previous_state >>
             ELSE IF parsed.raised
             THEN /\ pc' = "record" /\ todo' = {}
                  /\ stats' = Bump(NewStats, "errors")
                  /\ hist' = [h EXCEPT !.outcome = "raised"]
                  /\ UNCHANGED << desired, previous_state >>
             ELSE IF LoadStateRaises(stateFile)
             THEN /\ pc' = "record" /\ todo' = {}
                  /\ stats' = Bump(NewStats, "errors")
                  /\ hist' = [h EXCEPT !.outcome = "raised", !.loadRaised = TRUE]
                  /\ UNCHANGED << desired, previous_state >>
             ELSE /\ pc' = "fetch_users" /\ todo' = {}
                  /\ stats' = NewStats
                  /\ hist' = h
                  /\ desired' = parsed.users
                  /\ previous_state' = load_state(stateFile)

\* actual_users = fetch_existing_users(); on an exception errors += 1, return
FetchExistingUsers ==
    /\ pc = "fetch_users"
    /\ sql' = << >> /\ call' = NoCall
    /\ UNCHANGED << configmap, stateFile, db, dryRun, desired, previous_state,
                    existing_roles, carry,
                    metrics, totals, ret >>
    /\ \E q \in fetch_existing_users(db, pooled) :
         /\ pooled' = q.pooled /\ used' = used + q.held
         /\ IF q.ok
            THEN /\ actual_users' = q.rows
                 /\ pc' = "fetch_roles"
                 /\ UNCHANGED << stats, hist, todo >>
            ELSE /\ Leave(Bump(stats, "errors"), "aborted")
                 /\ UNCHANGED actual_users

\* reconcile_roles: existing_roles = fetch_existing_roles(), not guarded
FetchExistingRoles ==
    /\ pc = "fetch_roles"
    /\ sql' = << >> /\ call' = NoCall
    /\ UNCHANGED << configmap, stateFile, db, dryRun, desired, previous_state,
                    actual_users, carry,
                    metrics, totals, ret >>
    /\ \E q \in fetch_existing_roles(db, pooled) :
         /\ pooled' = q.pooled /\ used' = used + q.held
         /\ IF q.ok
            THEN /\ existing_roles' = q.rows
                 /\ Goto(AfterLoop("create_roles", RolesToCreate(desired, q.rows), stats))
                 /\ UNCHANGED hist
            ELSE /\ Leave(stats, "raised")
                 /\ UNCHANGED existing_roles

\* reconcile_roles: one pass of `for role in roles_to_create`
CreateRole ==
    /\ pc = "create_roles"
    /\ UNCHANGED << configmap, stateFile, dryRun, desired, previous_state,
                    actual_users, existing_roles, carry,
                    metrics, totals, ret >>
    /\ \E role \in todo : \E r \in create_role(role, db, pooled, dryRun) :
         LET c == GatewayCall("create_role", role, r)
         IN  /\ db' = r.db /\ pooled' = r.pooled /\ sql' = r.sql
             /\ used' = used + r.held
             /\ call' = c
             /\ hist' = Observe(hist, c, r.sql)
             /\ Goto(AfterLoop(pc, todo \ {role},
                               Bump(stats, IF r.ok THEN "roles_created" ELSE "errors")))

\* one pass of `for username in users_to_delete` that reaches drop_user
DropUser ==
    /\ pc = "delete"
    /\ UNCHANGED << configmap, stateFile, dryRun, desired, previous_state,
                    actual_users, existing_roles, carry,
                    metrics, totals, ret >>
    /\ \E username \in todo : \E r \in drop_user(username, db, pooled, dryRun) :
         LET c == GatewayCall("drop_user", username, r)
         IN  /\ db' = r.db /\ pooled' = r.pooled /\ sql' = r.sql
             /\ used' = used + r.held
             /\ call' = c
             /\ hist' = Observe(hist, c, r.sql)
             /\ Goto(AfterLoop(pc, todo \ {username},
                               Bump(stats, IF r.ok THEN "users_deleted" ELSE "errors")))

\* seeded fault: the user without a password is skipped without being counted
SecretMissingUncounted(st) == st

\* `if not password`: stats.errors += 1, continue
SecretMissing(st) == Bump(st, "errors")

\* one pass of `for username in users_to_create`: get_user_password gives the
\* password, None (no secret, no password field) or raises; then create_user
CreateUser ==
    /\ pc = "create"
    /\ UNCHANGED << configmap, stateFile, dryRun, desired, previous_state,
                    actual_users, existing_roles, carry,
                    metrics, totals, ret >>
    /\ \E username \in todo :
         \/ /\ Goto(AfterLoop(pc, todo \ {username}, SecretMissing(stats)))
            /\ hist' = [hist EXCEPT !.secretAbsent = TRUE]
            /\ sql' = << >> /\ call' = NoCall
            /\ UNCHANGED << db, pooled, used >>
         \/ \E r \in create_user(desired[username], db, pooled, dryRun) :
              LET c == GatewayCall("create_user", username, r)
              IN  /\ db' = r.db /\ pooled' = r.pooled /\ sql' = r.sql
                  /\ used' = used + r.held
                  /\ call' = c
                  /\ hist' = Observe(hist, c, r.sql)
                  /\ Goto(AfterLoop(pc, todo \ {username},
                                    Bump(stats, IF r.ok THEN "users_created" ELSE "errors")))

\* one pass of `for username in users_to_update`
UpdateUser ==
    /\ pc = "update"
    /\ UNCHANGED << configmap, stateFile, dryRun, desired, previous_state,
                    actual_users, existing_roles, carry,
                    metrics, totals, ret >>
    /\ \E username \in todo :
         IF ~RolesChanged(previous_state, desired, username)
         THEN /\ Goto(AfterLoop(pc, todo \ {username}, stats))
              /\ sql' = << >> /\ call' = NoCall
              /\ UNCHANGED << db, pooled, used, hist >>
         ELSE \E q \in fetch_user_roles(username, db, pooled) :
                LET desired_roles == Range(desired[username].roles)
                IN  IF ~q.ok
                    THEN /\ Goto(AfterLoop(pc, todo \ {username}, Bump(stats, "errors")))
                         /\ pooled' = q.pooled /\ used' = used + q.held
                         /\ sql' = << >> /\ call' = NoCall
                         /\ UNCHANGED << db, hist >>
                    ELSE IF q.rows = desired_roles
                    THEN /\ Goto(AfterLoop(pc, todo \ {username}, stats))
                         /\ pooled' = q.pooled /\ used' = used + q.held
                         /\ sql' = << >> /\ call' = NoCall
                         /\ UNCHANGED << db, hist >>
                    ELSE \E r \in update_user_roles(username, q.rows, desired_roles,
                                                    db, q.pooled, dryRun) :
                           LET c == GatewayCall("update_user_roles", username, r)
                           IN  /\ db' = r.db /\ pooled' = r.pooled /\ sql' = r.sql
                               /\ used' = used + q.held + r.held
                               /\ call' = c
                               /\ hist' = Observe(hist, c, r.sql)
                               /\ Goto(AfterLoop(pc, todo \ {username},
                                                 Bump(stats, IF r.ok THEN "users_updated"
                                                             ELSE "errors")))

\* the tail of reconcile_users: `if not dry_run: save_state(desired_users)`,
\* then users_managed and roles_managed, the latter from a second
\* fetch_existing_roles() that is not guarded
SaveState ==
    /\ pc = "save"
    /\ sql' = << >>
    /\ UNCHANGED << configmap, db, dryRun, desired, previous_state, actual_users,
                    existing_roles, carry,
                    metrics, totals, ret >>
    /\ \E f \in (IF dryRun THEN {stateFile} ELSE save_state(stateFile, desired)) :
       \E q \in fetch_existing_roles(db, pooled) :
         LET c == IF dryRun THEN NoCall
                  ELSE Call("save_state", "", f = StateFileOf(desired))
             h == IF dryRun THEN hist ELSE Observe(hist, c, << >>)
             how == IF q.ok THEN "completed" ELSE "raised"
         IN  /\ stateFile' = f
             /\ call' = c
             /\ pooled' = q.pooled /\ used' = used + q.held
             /\ pc' = "record" /\ todo' = {}
             /\ stats' = IF q.ok THEN stats ELSE Bump(stats, "errors")
             /\ hist' = [h EXCEPT !.outcome = how]

\* the end of the iteration: the cycle's stats are handed to the metrics, the
\* summary is logged and the loop sleeps.  What the Metrics object adds up
\* over the iterations is followed in Loop, where the iterations are bounded.
RecordReconciliation ==
    /\ pc = "record"
    /\ pc' = "sleep"
    /\ carry' = [clean |-> /\ hist.outcome = "completed" /\ stats.errors = 0 /\ ~dryRun
                          /\ stateFile = StateFileOf(desired)]
    /\ sql' = << >> /\ call' = NoCall
    /\ desired' = EmptyMap /\ previous_state' = EmptyMap
    /\ actual_users' = {} /\ existing_roles' = {} /\ todo' = {}
    /\ stats' = NewStats
    /\ hist' = NewHist(stateFile)
    /\ UNCHANGED << configmap, stateFile, db, pooled, dryRun, used, metrics, totals, ret >>

----------------------------------------------------------------------------
(* The environment, between cycles.                                        *)

\* an operator publishes another revision of the document
PublishConfigMap ==
    /\ pc = "sleep"
    /\ \E cm \in ConfigMaps \ {configmap} : configmap' = cm
    /\ carry' = NoCarry
    /\ UNCHANGED << stateFile, db, pooled, dryRun, pc, desired, previous_state,
                    actual_users, existing_roles, todo, stats, sql, call, hist,
                    used, metrics, totals, ret >>

\* someone else grants or revokes a role membership of an existing user
ExternalMembership ==
    /\ pc = "sleep"
    /\ \E u \in {"alice"}, r \in {"ro"} :
         /\ db.kind[u] = "login" /\ Exists(db, r)
         /\ db' = [db EXCEPT !.member = IF <<u, r>> \in @ THEN @ \ {<<u, r>>}
                                        ELSE @ \cup {<<u, r>>}]
    /\ carry' = NoCarry
    /\ UNCHANGED << configmap, stateFile, pooled, dryRun, pc, desired, previous_state,
                    actual_users, existing_roles, todo, stats, sql, call, hist,
                    used, metrics, totals, ret >>

\* the supervisor restarts the process: a new pool, DRY_RUN read again from
\* the environment; the state file and the database are as they were left
Restart ==
    /\ pc = "sleep"
    /\ \E b \in BOOLEAN : dryRun' = b
    /\ pooled' = "txn" /\ used' = 0
    /\ metrics' = NewMetrics
    /\ carry' = NoCarry
    /\ UNCHANGED << configmap, stateFile, db, pc, desired, previous_state,
                    actual_users, existing_roles, todo, stats, sql, call, hist,
                    totals, ret >>

Next ==
    \/ FetchDesired
    \/ FetchExistingUsers
    \/ FetchExistingRoles
    \/ CreateRole
    \/ DropUser
    \/ CreateUser
    \/ UpdateUser
    \/ SaveState
    \/ RecordReconciliation
    \/ PublishConfigMap
    \/ ExternalMembership
    \/ Restart

Spec == Init /\ [][Next]_vars

----------------------------------------------------------------------------
(* The pure functions on their own: detect_drift, and save_state followed  *)
(* by load_state, applied to every input of a bounded set.                 *)

Databases == {"app", DB_NAME}

\* privileges: None, or a dict from object type to a list of keywords
PrivilegeDicts ==
    { NoPrivileges,
      << <<"tables", <<"SELECT", "INSERT">>>> >>,
      << <<"tables", <<"SELECT">>>>, <<"orders", << >>>> >> }

\* maps of well-formed user records
RecordMaps ==
    UNION { [ S -> UNION { { UserSpec(u, d, rs, pv) :
                               d \in Databases, rs \in RoleLists(u), pv \in PrivilegeDicts }
                           : u \in S } ]
            : S \in SUBSET UserNames }

FunctionInputs == { m \in RecordMaps : WellFormed(m) }

FunctionsInit ==
    /\ desired \in FunctionInputs
    /\ actual_users \in SUBSET Names
    /\ stateFile \in InitialStateFiles
    /\ pc = "input"
    /\ configmap = [kind |-> "yaml", users |-> EmptyMap]
    /\ db = [kind |-> [r \in Names |-> "absent"], member |-> {}]
    /\ pooled = "txn"
    /\ dryRun = FALSE
    /\ previous_state = EmptyMap
    /\ existing_roles = {}
    /\ todo = {}
    /\ stats = NewStats
    /\ sql = << >>
    /\ call = NoCall
    /\ hist = NewHist(stateFile)
    /\ carry = NoCarry
    /\ used = 0
    /\ metrics = NewMetrics
    /\ totals = NoTotals
    /\ ret = NoReturn

\* users_to_create, users_to_delete, users_to_update = detect_drift(...)
ApplyDetectDrift ==
    /\ pc = "input"
    /\ pc' = "diffed"
    /\ todo' = detect_drift(desired, actual_users).users_to_update
    /\ UNCHANGED << configmap, stateFile, db, pooled, dryRun, desired, previous_state,
                    actual_users, existing_roles, stats, sql, call, hist, carry,
                    used, metrics, totals, ret >>

\* save_state(desired)
ApplySaveState ==
    /\ pc = "input"
    /\ pc' = "saved"
    /\ \E f \in save_state(stateFile, desired) :
         /\ stateFile' = f
         /\ call' = Call("save_state", "", f = StateFileOf(desired))
    /\ UNCHANGED << configmap, db, pooled, dryRun, desired, previous_state,
                    actual_users, existing_roles, todo, stats, sql, hist, carry,
                    used, metrics, totals, ret >>

\* previous_state = load_state(), when it does not raise
ApplyLoadState ==
    /\ pc = "saved"
    /\ ~LoadStateRaises(stateFile)
    /\ pc' = "loaded"
    /\ previous_state' = load_state(stateFile)
    /\ UNCHANGED << configmap, stateFile, db, pooled, dryRun, desired,
                    actual_users, existing_roles, todo, stats, sql, call, hist, carry,
                    used, metrics, totals, ret >>

FunctionsNext == ApplyDetectDrift \/ ApplySaveState \/ ApplyLoadState

Functions == FunctionsInit /\ [][FunctionsNext]_vars

----------------------------------------------------------------------------
(* The clients' operations on their own, each applied to every input of a   *)
(* bounded set: the retrying reads of the Kubernetes client, the parser,    *)
(* and the statements of update_user_roles and create_user.                 *)

\* the answers of the API server to the successive reads of one call
ApiScripts == [1..(MAX_RETRIES + 2) -> ApiAnswers]

\* a catalogue in which `username` is a login role that holds exactly `held`
\* and every other name is a group role
CatalogueWith(username, held) ==
    [ kind |-> [ r \in Names |-> IF r = username THEN "login" ELSE "group" ],
      member |-> { <<username, r>> : r \in held } ]

\* privilege keywords a document can carry
PrivilegeInputs ==
    PrivilegeDicts \cup { << <<"public", <<"USAGE", "SUPERUSER">>>> >> }

OperationsInit ==
    /\ pc = "idle"
    /\ ret = NoReturn
    /\ sql = << >>
    /\ call = NoCall
    /\ configmap = [kind |-> "yaml", users |-> EmptyMap]
    /\ stateFile = NoStateFile
    /\ db = [kind |-> [r \in Names |-> "absent"], member |-> {}]
    /\ pooled = "txn"
    /\ dryRun = FALSE
    /\ desired = EmptyMap
    /\ previous_state = EmptyMap
    /\ actual_users = {}
    /\ existing_roles = {}
    /\ todo = {}
    /\ stats = NewStats
    /\ hist = NewHist(stateFile)
    /\ carry = NoCarry
    /\ used = 0
    /\ metrics = NewMetrics
    /\ totals = NoTotals

\* one operation is applied to one input
OperationsFrame ==
    /\ pc = "idle"
    /\ pc' = "applied"
    /\ UNCHANGED << configmap, stateFile, dryRun, desired, previous_state,
                    actual_users, existing_roles, todo, stats, hist, carry,
                    metrics, totals >>

\* yaml_content = k8s_client.fetch_configmap(CONFIGMAP_NAME, NAMESPACE)
ApplyFetchConfigmap ==
    /\ OperationsFrame
    /\ \E api \in ApiScripts :
         ret' = [op |-> "fetch_configmap", api |-> api, out |-> fetch_configmap(api)]
    /\ sql' = << >> /\ call' = NoCall
    /\ UNCHANGED << db, pooled, used >>

\* password = k8s_client.get_user_password(username, NAMESPACE)
ApplyGetUserPassword ==
    /\ OperationsFrame
    /\ \E api \in ApiScripts :
         ret' = [op |-> "get_user_password", api |-> api, out |-> get_user_password(api)]
    /\ sql' = << >> /\ call' = NoCall
    /\ UNCHANGED << db, pooled, used >>

\* desired_users = parse_desired_users(yaml_content)
ApplyParseDesiredUsers ==
    /\ OperationsFrame
    /\ \E cm \in ConfigMaps \ { c \in ConfigMaps : ConfigMissing(c) } :
         ret' = [op |-> "parse_desired_users", cm |-> cm, out |-> parse_desired_users(cm)]
    /\ sql' = << >> /\ call' = NoCall
    /\ UNCHANGED << db, pooled, used >>

\* db_client.update_user_roles(username, old_roles, new_roles, dry_run) on a
\* connection of either mode, with every fault
ApplyUpdateUserRoles ==
    /\ OperationsFrame
    /\ \E username \in Names, old_roles \in SUBSET Names, new_roles \in SUBSET Names,
          p \in {"txn", "autocommit"}, dry_run \in BOOLEAN :
         \E r \in update_user_roles(username, old_roles, new_roles,
                                    CatalogueWith(username, old_roles), p, dry_run) :
           /\ ret' = [ op |-> "update_user_roles", username |-> username,
                       old_roles |-> old_roles, new_roles |-> new_roles,
                       dry_run |-> dry_run, ok |-> r.ok ]
           /\ db' = r.db /\ pooled' = r.pooled /\ used' = used + r.held
           /\ sql' = r.sql
           /\ call' = GatewayCall("update_user_roles", username, r)

\* a catalogue without any of the names
EmptyCatalogue == [kind |-> [r \in Names |-> "absent"], member |-> {}]

\* db_client.create_user(user_spec, password, dry_run) for a record that
\* carries privileges, in a database where the user does not exist
ApplyCreateUser ==
    /\ OperationsFrame
    /\ \E u \in Names, pv \in PrivilegeInputs, dry_run \in BOOLEAN :
         LET spec == UserSpec(u, DB_NAME, << >>, pv)
         IN  \E r \in create_user(spec, EmptyCatalogue, "txn", dry_run) :
               /\ ret' = [ op |-> "create_user", spec |-> spec,
                           dry_run |-> dry_run, ok |-> r.ok ]
               /\ db' = r.db /\ pooled' = r.pooled /\ used' = used + r.held
               /\ sql' = r.sql
               /\ call' = GatewayCall("create_user", u, r)

MaxRoles == 2

\* every list of at most MaxRoles identifiers, repetitions included
RoleListInputs == UNION { [1..n -> Names] : n \in 0..MaxRoles }

HashInputs ==
    { UserSpec(u, d, rs, pv) :
        u \in {"alice"}, d \in Databases, rs \in RoleListInputs, pv \in PrivilegeDicts }

\* hash(user1), hash(user2)
ApplyHash ==
    /\ OperationsFrame
    /\ \E a \in HashInputs, b \in HashInputs :
         ret' = [op |-> "hash", a |-> a, b |-> b, hash_a |-> Hash(a), hash_b |-> Hash(b)]
    /\ sql' = << >> /\ call' = NoCall
    /\ UNCHANGED << db, pooled, used >>

OperationsNext ==
    \/ ApplyHash
    \/ ApplyFetchConfigmap
    \/ ApplyGetUserPassword
    \/ ApplyParseDesiredUsers
    \/ ApplyUpdateUserRoles
    \/ ApplyCreateUser

Operations == OperationsInit /\ [][OperationsNext]_vars

----------------------------------------------------------------------------
(* run_reconciliation_loop and the Metrics object over a bounded number of  *)
(* iterations.  reconcile_users is a call that changes the stats it is      *)
(* given and the two gauges, and returns or raises.                         *)

MaxIterations == 3

MaxPerCycle == 2

MaxManaged == 1

LoopInit ==
    /\ pc = "sleep"
    /\ stats = NewStats
    /\ metrics = NewMetrics
    /\ totals = NoTotals
    /\ configmap = [kind |-> "yaml", users |-> EmptyMap]
    /\ stateFile = NoStateFile
    /\ db = [kind |-> [r \in Names |-> "absent"], member |-> {}]
    /\ pooled = "txn"
    /\ dryRun = FALSE
    /\ desired = EmptyMap
    /\ previous_state = EmptyMap
    /\ actual_users = {}
    /\ existing_roles = {}
    /\ todo = {}
    /\ sql = << >>
    /\ call = NoCall
    /\ hist = NewHist(stateFile)
    /\ carry = NoCarry
    /\ used = 0
    /\ ret = NoReturn

LoopFrame ==
    UNCHANGED << configmap, stateFile, db, pooled, dryRun, desired, previous_state,
                 actual_users, existing_roles, todo, sql, call, hist, carry, used, ret >>

\* while True: stats = ReconciliationStats(start_time=datetime.now())
StartIteration ==
    /\ pc = "sleep"
    /\ totals.iterations < MaxIterations
    /\ pc' = "try"
    /\ stats' = NewStats
    /\ totals' = [totals EXCEPT !.iterations = @ + 1]
    /\ UNCHANGED metrics
    /\ LoopFrame

\* self.reconcile_users(stats, dry_run): counts drift and errors into stats;
\* returns early, or returns after setting the gauges, or raises (with
\* users_managed set when it was the last fetch_existing_roles that raised)
ReconcileUsers ==
    /\ pc = "try"
    /\ \E d \in 0..MaxPerCycle, e \in 0..MaxPerCycle, how \in {"returned", "raised"},
          gauges \in BOOLEAN, um \in 0..MaxManaged, rm \in 0..MaxManaged :
         /\ how = "raised" => rm = metrics.roles_managed
         /\ ~gauges => um = metrics.users_managed /\ rm = metrics.roles_managed
         /\ stats' = [stats EXCEPT !.drift_detected = d, !.errors = e]
         /\ metrics' = [metrics EXCEPT !.users_managed = um, !.roles_managed = rm]
         /\ pc' = how
    /\ UNCHANGED totals
    /\ LoopFrame

\* try: ... stats.end_time = now; self.metrics.record_reconciliation(stats)
RecordInTry ==
    /\ pc = "returned"
    /\ metrics' = record_reconciliation(metrics, stats, totals.clock)
    /\ pc' = "summary"
    /\ UNCHANGED << stats, totals >>
    /\ LoopFrame

\* seeded fault: the exception leaves the loop
RaiseOutOfLoop ==
    /\ pc = "raised"
    /\ pc' = "exit"
    /\ UNCHANGED << stats, metrics, totals >>
    /\ LoopFrame

\* except Exception: stats.errors += 1; record_reconciliation(stats)
RecordInExcept ==
    /\ pc = "raised"
    /\ stats' = Bump(stats, "errors")
    /\ metrics' = record_reconciliation(metrics, Bump(stats, "errors"), totals.clock)
    /\ pc' = "summary"
    /\ UNCHANGED totals
    /\ LoopFrame

\* time.sleep(SYNC_INTERVAL): the iteration is over with the stats it had
Sleep ==
    /\ pc = "summary"
    /\ pc' = "sleep"
    /\ totals' = [totals EXCEPT !.drift = @ + stats.drift_detected,
                                !.errors = @ + stats.errors,
                                !.clock = @ + 1]
    /\ UNCHANGED << stats, metrics >>
    /\ LoopFrame

LoopNext == StartIteration \/ ReconcileUsers \/ RecordInTry \/ RecordInExcept \/ Sleep

Loop == LoopInit /\ [][LoopNext]_vars

\* the one thread of main() keeps running: whichever statement of the loop
\* is next is executed, and time.sleep returns after SYNC_INTERVAL
LoopFair == Loop /\ WF_vars(LoopNext)

----------------------------------------------------------------------------
(* Vocabulary of the properties.                                           *)

DBMutations == {"create_role", "drop_user", "create_user", "update_user_roles"}

UserMutations == {"drop_user", "create_user", "update_user_roles"}

MutatingCalls(h) == { c \in h.calls : c[1] \in DBMutations }

CallsOf(h, op) == { c \in h.calls : c[1] = op }

Issued(op) == \E i \in DOMAIN sql : sql[i].op = op

\* the roles granted directly to u
MemberOf(d, u) == { r \in Names : <<u, r>> \in d.member }

\* every desired user exists with exactly its desired direct memberships
Converged(desired_users, d) ==
    \A u \in DOMAIN desired_users :
        Exists(d, u) /\ MemberOf(d, u) = Range(desired_users[u].roles)

\* The user-level calls a cycle started now would reach, by the controller's
\* own plan (detect_drift, the ownership test, the role-change test), if every
\* read succeeds and every secret is there.
PlannedCalls(cm, f, d) ==
    LET des  == parse_desired_users(cm).users
        prev == load_state(f)
        live == { r \in Names : Exists(d, r) /\ r \notin SYSTEM_ROLES }
    IN  { <<"drop_user", u>> : u \in LoopItems("delete", des, prev, live) }
        \cup { <<"create_user", u>> : u \in LoopItems("create", des, prev, live) }
        \cup { <<"update_user_roles", u>> :
                 u \in { x \in LoopItems("update", des, prev, live) :
                           RolesChanged(prev, des, x) } }

Rank(op) ==
    CASE op = "create_role" -> 1
      [] op = "drop_user" -> 2
      [] op = "create_user" -> 3
      [] op = "update_user_roles" -> 4
      [] op = "save_state" -> 5
      [] OTHER -> 0

----------------------------------------------------------------------------
(* C1: drop_user(u) is called only for a user that is in the last-applied   *)
(* state loaded at the start of the cycle, is in the live user set and is   *)
(* not in the desired spec; a live user that is in neither last-applied     *)
(* nor desired is never dropped.                                            *)
C1_OrphanProtection ==
    call.op = "drop_user" =>
        /\ call.name \in DOMAIN load_state(hist.stateAtStart)
        /\ call.name \in actual_users
        /\ call.name \notin DOMAIN desired

\* an owned user is dropped while an orphan is live in the same cycle
C1_Witness ==
    /\ call.op = "drop_user" /\ call.ok /\ ~dryRun
    /\ Issued("DROP USER")
    /\ actual_users \ (DOMAIN desired \cup DOMAIN previous_state) # {}

(* C2: no statement of any cycle is issued against a name of the system-role *)
(* denylist, whatever the desired spec lists.                                *)
C2_NoStatementOnSystemRole ==
    \A i \in DOMAIN sql : Target(sql[i]) \notin SYSTEM_ROLES

(* C3: every GRANT <role> TO <user> for a role that was not among the live   *)
(* group roles fetched in the cycle comes after a CREATE ROLE <role>         *)
(* statement of the same cycle.                                              *)
C3_GrantAfterCreateRole ==
    \A i \in DOMAIN sql :
        sql[i].op = "GRANT" => sql[i].a \in existing_roles \cup hist.roleStmts

(* C4: within a cycle the calls come in phases: create_role, drop_user,     *)
(* create_user, update_user_roles, save_state; no call of an earlier phase   *)
(* follows a call of a later one.                                            *)
C4_StrictPhases ==
    [][ call'.op # "none" /\ pc # "sleep"
          => \A c \in hist.calls : Rank(c[1]) <= Rank(call'.op) ]_vars

\* save_state is reached after calls of all four earlier phases
C4_Witness ==
    /\ call.op = "save_state"
    /\ \A op \in DBMutations : CallsOf(hist, op) # {}

(* C5: when a mutation of the cycle failed, or a user was skipped for a     *)
(* missing secret, the state file after the cycle is what it was before.     *)
C5_FailureLeavesStateFile ==
    (pc = "record" /\ (hist.secretAbsent \/ \E c \in hist.failed : c[1] \in DBMutations))
        => stateFile = hist.stateAtStart

(* C6: a create_user, drop_user or update_user_roles that failed in this    *)
(* cycle is issued again by the next cycle when the spec and the database    *)
(* stay as they are.                                                         *)
C6_FailedMutationRetried ==
    (pc = "record" /\ hist.outcome = "completed" /\ ~dryRun)
        => \A c \in hist.failed :
              c[1] \in UserMutations => c \in PlannedCalls(configmap, stateFile, db)

(* C7: a create_user that failed leaves nothing behind in the database.     *)
C7_FailedCreateUserLeavesNothing ==
    [][ call'.op = "create_user" /\ ~call'.ok => db' = db ]_vars

(* C8: the loop converges.  A cycle that ran to its end without error, made  *)
(* no mutating call and found the state file already equal to the desired   *)
(* spec is repeated unchanged by every later cycle, so by then every desired *)
(* user must exist with exactly its desired memberships.                     *)
C8_QuiescentIsConverged ==
    ( /\ pc = "record" /\ hist.outcome = "completed" /\ ~dryRun
      /\ stats.errors = 0 /\ MutatingCalls(hist) = {}
      /\ hist.stateAtStart = StateFileOf(desired)
      /\ stateFile = hist.stateAtStart )
        => Converged(desired, db)

(* C9: the second of two back-to-back cycles, with the spec and the database *)
(* untouched in between, makes no mutating gateway call.  Stated for the     *)
(* case most favourable to the code: the first cycle ran to its end, not in  *)
(* dry-run, with no error, and left the desired spec in the state file.      *)
C9_SecondCycleSilent ==
    (pc = "record" /\ carry.clean) => MutatingCalls(hist) = {}

(* C10: in dry-run no statement is issued by any call, save_state is not    *)
(* called and the state file stays as it was, and the counters count every   *)
(* intended mutation.                                                        *)
C10_DryRunPurity ==
    dryRun =>
        /\ sql = << >>
        /\ call.op # "save_state"
        /\ stateFile = hist.stateAtStart
        /\ hist.failed = {}
        /\ stats.roles_created = Cardinality(CallsOf(hist, "create_role"))
        /\ stats.users_deleted = Cardinality(CallsOf(hist, "drop_user"))
        /\ stats.users_created = Cardinality(CallsOf(hist, "create_user"))
        /\ stats.users_updated = Cardinality(CallsOf(hist, "update_user_roles"))

\* a dry-run cycle at its end that intended a creation, a deletion and an update
C10_Witness ==
    /\ dryRun /\ pc = "record" /\ hist.outcome = "completed"
    /\ stats.users_created > 0 /\ stats.users_deleted > 0 /\ stats.users_updated > 0
    /\ stats.roles_created > 0

(* C11: when the document is not found (fetch_configmap returns None) the    *)
(* cycle ends at once: no query, no gateway call, no statement, no          *)
(* save_state, the database and the state file as they were.                 *)
C11_MissingSpecAborts ==
    [][ ( /\ pc = "sleep" /\ pc' # "sleep"
          /\ configmap.kind = "notfound" /\ hist'.outcome # "raised" )
          => /\ pc' = "record" /\ hist'.outcome = "aborted"
             /\ hist'.calls = {} /\ call' = NoCall /\ sql' = << >>
             /\ db' = db /\ pooled' = pooled /\ stateFile' = stateFile ]_vars

\* a cycle aborted for a missing document while the state file lists users
\* that an empty spec would have had dropped
C11_Witness ==
    /\ pc = "record" /\ configmap.kind = "notfound" /\ hist.outcome = "aborted"
    /\ ~dryRun /\ stats.errors = 1
    /\ \E u \in DOMAIN load_state(stateFile) : Exists(db, u)

(* C12: when fetch_existing_users, or the fetch_existing_roles call of      *)
(* reconcile_roles, raises, the cycle is over: no mutating call was or is    *)
(* made in it and the state file is not rewritten.                           *)
C12_LiveViewFailureAborts ==
    hist.liveViewFailed =>
        /\ pc = "record" /\ hist.outcome \in {"aborted", "raised"}
        /\ hist.calls = {} /\ call = NoCall /\ sql = << >>
        /\ stateFile = hist.stateAtStart

\* reconcile_roles' fetch raised in a cycle that had users to create
C12_Witness ==
    /\ hist.liveViewFailed /\ pc = "record" /\ hist.outcome = "raised" /\ ~dryRun
    /\ LoopItems("create", desired, previous_state, actual_users) # {}
    /\ stateFile # StateFileOf(desired)

(* C13: a failure on one user adds one to the error counter and the users   *)
(* still to visit, in this loop and in the later ones, are visited all the   *)
(* same.                                                                     *)

UserPhases == <<"delete", "create", "update">>

PhaseIndex(p) == CHOOSE i \in DOMAIN UserPhases : UserPhases[i] = p

\* the user loops after phase p that have something to visit
PendingPhases(p) ==
    { i \in DOMAIN UserPhases :
        /\ i > PhaseIndex(p)
        /\ LoopItems(UserPhases[i], desired, previous_state, actual_users) # {} }

\* what this pass is seen to have failed with: a gateway call that raised, a
\* password that was not there, a query that lost or was refused a connection
PassFailed ==
    \/ call'.op # "none" /\ ~call'.ok
    \/ pc = "create" /\ call'.op = "none"
    \/ pc = "update" /\ call'.op = "none" /\ pooled # "none" /\ pooled' = "none"

C13_PerItemIsolation ==
    [][ (pc \in Range(UserPhases) /\ todo # {} /\ (pc' # pc \/ todo' # todo))
          => /\ pc' # "record"
             /\ stats'.errors \in {stats.errors, stats.errors + 1}
             /\ PassFailed => stats'.errors = stats.errors + 1
             /\ \E u \in todo :
                   IF todo \ {u} # {}
                   THEN pc' = pc /\ todo' = todo \ {u}
                   ELSE IF PendingPhases(pc) = {}
                   THEN pc' = "save"
                   ELSE LET i == CHOOSE j \in PendingPhases(pc) :
                                   \A k \in PendingPhases(pc) : j <= k
                        IN  /\ pc' = UserPhases[i]
                            /\ todo' = LoopItems(UserPhases[i], desired,
                                                 previous_state, actual_users) ]_vars

\* a user-level call succeeds after the call for another user failed earlier
\* in the same cycle
C13_Witness ==
    /\ call.op \in UserMutations /\ call.ok /\ ~dryRun
    /\ \E c \in hist.failed : c[1] \in UserMutations /\ c[2] # call.name
    /\ stats.errors > 0

(* C14: a user to create whose password is not there gets no create_user    *)
(* call and no statement, the error counter goes up by exactly one, and the  *)
(* other users are still visited.                                            *)
C14_MissingSecretSkipsUser ==
    [][ (pc = "create" /\ call'.op = "none" /\ (pc' # pc \/ todo' # todo))
          => /\ hist'.secretAbsent
             /\ stats'.errors = stats.errors + 1
             /\ stats'.users_created = stats.users_created
             /\ hist'.calls = hist.calls /\ sql' = << >> /\ db' = db
             /\ \E u \in todo :
                   /\ <<"create_user", u>> \notin hist'.calls
                   /\ IF todo \ {u} # {} THEN pc' = pc /\ todo' = todo \ {u}
                      ELSE pc' \in {"update", "save"} ]_vars

\* another user is created after one was skipped for its password
C14_Witness ==
    /\ hist.secretAbsent /\ ~dryRun
    /\ call.op = "create_user" /\ call.ok /\ Issued("CREATE USER")
    /\ \E u \in DOMAIN desired \ actual_users : <<"create_user", u>> \notin hist.calls

(* C15: when the state file is absent or malformed, load_state returns the  *)
(* empty map without raising and the cycle makes no drop_user call.          *)
C15_MalformedStateIsEmpty ==
    (hist.stateAtStart.kind \in {"absent", "corrupt"} \/ ~Decodable(hist.stateAtStart.data))
        => /\ ~hist.loadRaised
           /\ previous_state = EmptyMap
           /\ CallsOf(hist, "drop_user") = {}

(* C16: save_state replaces the state file atomically: whatever happens to  *)
(* the write, the file afterwards is the complete prior content or the       *)
(* complete new content.                                                     *)
C16_SaveIsAtomic ==
    call.op = "save_state" => stateFile \in {hist.stateAtStart, StateFileOf(desired)}

(* C17: the drift a cycle reports is the number of users to create plus the *)
(* number of users the deletion loop may drop (live, not desired, in the     *)
(* last-applied state); live users that are neither desired nor last-applied *)
(* do not count.                                                             *)
C17_DriftCountsOwnedDeletions ==
    (pc \in {"delete", "create", "update", "save"}
       \/ (pc = "record" /\ hist.outcome = "completed"))
        => stats.drift_detected =
             Cardinality(LoopItems("create", desired, previous_state, actual_users))
             + Cardinality(LoopItems("delete", desired, previous_state, actual_users))

(* C18: the live user set fetch_existing_users gives the diff is exactly    *)
(* the roles that can log in and are not system roles; a group role is never *)
(* in it.                                                                    *)
C18_LiveUsersAreLoginRoles ==
    pc = "fetch_roles" =>
        actual_users = { r \in Names : db.kind[r] = "login" /\ r \notin SYSTEM_ROLES }

----------------------------------------------------------------------------
\* a call of the cycle failed, or the cycle ended before its tail
FaultObserved(h) ==
    \/ h.failed # {}
    \/ h.secretAbsent \/ h.liveViewFailed \/ h.loadRaised
    \/ h.outcome \in {"aborted", "raised"}

(* C21: every fault seen during a cycle reaches the metrics: when any       *)
(* operation of the cycle failed, a failed write of the state file          *)
(* included, the stats handed to record_reconciliation have errors >= 1,    *)
(* so that errors_total grows and last_error_timestamp is set.              *)
C21_FaultsReachMetrics ==
    (pc = "record" /\ FaultObserved(hist)) =>
        LET m == record_reconciliation(metrics, stats, totals.clock)
        IN  /\ stats.errors >= 1
            /\ m.error_count > metrics.error_count
            /\ m.last_error_timestamp = totals.clock

C23_BoundedRetries ==
    ret.op \in {"fetch_configmap", "get_user_password"} =>
        /\ ret.out.attempts <= MAX_RETRIES
        /\ Len(ret.out.slept) = ret.out.attempts - 1
        /\ \A k \in DOMAIN ret.out.slept :
              ret.out.slept[k] = Pow(RETRY_BACKOFF_BASE, k - 1)
        /\ (\A n \in 1..MAX_RETRIES : ret.api[n] = "error") => ret.out.result = "raise"

\* the positions of sql that hold a statement `op`
Positions(op) == { i \in DOMAIN sql : sql[i].op = op }

(* C25: update_user_roles(username, current, desired) issues exactly one    *)
(* REVOKE for each role of current \ desired and exactly one GRANT for each *)
(* role of desired \ current, every REVOKE before any GRANT, nothing for a  *)
(* role of current \cap desired, and nothing at all when both differences   *)
(* are empty.                                                               *)
C25_UpdateIssuesTheDifference ==
    (ret.op = "update_user_roles" /\ ~ret.dry_run) =>
        LET to_revoke == ret.old_roles \ ret.new_roles
            to_grant  == ret.new_roles \ ret.old_roles
        IN  /\ \A i \in DOMAIN sql :
                  /\ sql[i].op \in {"REVOKE", "GRANT"}
                  /\ sql[i].b = ret.username
                  /\ sql[i].a \notin ret.old_roles \cap ret.new_roles
                  /\ sql[i].op = "REVOKE" => sql[i].a \in to_revoke
                  /\ sql[i].op = "GRANT" => sql[i].a \in to_grant
            /\ \A i \in Positions("REVOKE"), j \in Positions("GRANT") : i < j
            /\ \A i, j \in DOMAIN sql : sql[i] = sql[j] => i = j
            /\ ret.ok => /\ { sql[i].a : i \in Positions("REVOKE") } = to_revoke
                         /\ { sql[i].a : i \in Positions("GRANT") } = to_grant
            /\ (to_revoke = {} /\ to_grant = {}) => sql = << >>

C25_Witness ==
    /\ ret.op = "update_user_roles" /\ ~ret.dry_run /\ ret.ok
    /\ Positions("REVOKE") # {} /\ Positions("GRANT") # {}
    /\ ret.old_roles \cap ret.new_roles # {}

(* C24: in the update phase update_user_roles is called for a user only if  *)
(* the user is desired and live, the last-applied state has a record for     *)
(* the user whose role set differs from the desired one, and the membership  *)
(* fetch_user_roles returned differs from the desired role set;              *)
(* users_updated grows, by one, exactly when that call was made and          *)
(* returned.                                                                 *)
C24_UpdateOnlyOnRoleChange ==
    [][ pc = "update" =>
          /\ call'.op = "update_user_roles" =>
                LET u == call'.name
                IN  /\ u \in DOMAIN desired /\ u \in actual_users
                    /\ u \in DOMAIN previous_state
                    /\ Range(previous_state[u].roles) # Range(desired[u].roles)
                    /\ MemberOf(db, u) # Range(desired[u].roles)
          /\ IF call'.op = "update_user_roles" /\ call'.ok
             THEN stats'.users_updated = stats.users_updated + 1
             ELSE stats'.users_updated = stats.users_updated ]_vars

C24_Witness ==
    /\ call.op = "update_user_roles" /\ call.ok /\ ~dryRun
    /\ stats.users_updated = 1
    /\ Issued("REVOKE")

(* C26: drop_user issues REVOKE ALL PRIVILEGES ON DATABASE, REASSIGN OWNED  *)
(* BY, DROP OWNED BY, DROP USER IF EXISTS in that order, so that ownership   *)
(* is reassigned before the user is dropped, and when one of them fails      *)
(* none of the four has taken effect.                                        *)
C26_DropUserOrderedAndAtomic ==
    call.op = "drop_user" =>
        LET order == << "REVOKE ALL", "REASSIGN OWNED", "DROP OWNED", "DROP USER" >>
        IN  /\ Len(sql) <= Len(order)
            /\ \A i \in DOMAIN sql : sql[i].op = order[i] /\ sql[i].a = call.name
            /\ (call.ok /\ ~dryRun) => Len(sql) = Len(order)
            /\ ~call.ok => call.durable = 0

(* C27: every gateway operation gives the connection it acquired back to    *)
(* the pool on every exit path, so between any two gateway operations no     *)
(* connection is checked out and the pool is never exhausted.                *)
C27_ConnectionsReturned == used = 0

C27_Witness ==
    /\ used = 0
    /\ call.op = "create_user" /\ ~call.ok /\ Len(sql) > 1
    /\ hist.liveViewFailed = FALSE /\ pooled = "none"

(* C28: at the moment a user grant (GRANT <role> TO <user>) is issued,       *)
(* every role that a record of the desired spec refers to exists in the      *)
(* database as a group role, also when a create_role call of the cycle       *)
(* failed.                                                                   *)
C28_RolesExistBeforeGrants ==
    [][ (\E i \in DOMAIN sql' : sql'[i].op = "GRANT") =>
          \A r \in AllDesiredRoles(desired) : db.kind[r] = "group" ]_vars

(* C29: a document that fails to parse (invalid YAML, a record without      *)
(* username, or a document that has not the shape of a users list) makes     *)
(* parse_desired_users return the empty map, without raising; never a map    *)
(* of the records decoded before the failure.                                *)
C29_ParseFailureIsEmptyMap ==
    (ret.op = "parse_desired_users" /\ ret.cm.kind \in {"invalid", "badshape"}) =>
        /\ ~ret.out.raised
        /\ ret.out.users = EmptyMap

\* the privilege keywords GRANT ... ON accepts for the objects of a record
PrivilegeAllowList == {"SELECT", "INSERT", "UPDATE", "DELETE", "USAGE"}

(* C30: create_user issues GRANT <privilege> ON <object> only for privilege *)
(* keywords of a fixed allow-list; for a record that carries a keyword       *)
(* outside the list no statement with that keyword is issued.                *)
C30_PrivilegesFromAllowList ==
    ret.op = "create_user" =>
        \A i \in DOMAIN sql :
            sql[i].op = "GRANT PRIV" => sql[i].b \in PrivilegeAllowList

\* the number of times x occurs in the list xs
Count(xs, x) == Cardinality({ i \in DOMAIN xs : xs[i] = x })

\* two lists with the same elements, each as often
SameMultiset(xs, ys) == \A x \in Names : Count(xs, x) = Count(ys, x)

(* C31: the hash of a user record depends on its roles only as a set: two   *)
(* records with equal username, database and privileges whose role lists     *)
(* are permutations of each other have the same hash, and two records that   *)
(* differ only in their role sets have different hashes.                     *)
C31_HashIgnoresRoleOrder ==
    (/\ ret.op = "hash"
     /\ ret.a.username = ret.b.username /\ ret.a.database = ret.b.database
     /\ ret.a.privileges = ret.b.privileges) =>
        /\ SameMultiset(ret.a.roles, ret.b.roles) => ret.hash_a = ret.hash_b
        /\ Range(ret.a.roles) # Range(ret.b.roles) => ret.hash_a # ret.hash_b

C31_Witness ==
    /\ ret.op = "hash"
    /\ ret.a.database = ret.b.database /\ ret.a.privileges = ret.b.privileges
    /\ ret.a.roles # ret.b.roles /\ SameMultiset(ret.a.roles, ret.b.roles)
    /\ ret.hash_a = ret.hash_b

(* C32: the loop never stops because of a cycle: after every cycle, whether *)
(* it returned (completed or aborted early) or raised an Exception, the      *)
(* controller records it, sleeps and starts a new cycle (as long as the      *)
(* iteration bound of the model allows one), and a cycle starts only from    *)
(* the sleep, so that at most one is in flight.                              *)
C32_LoopNeverStops ==
    /\ []((pc \in {"returned", "raised"}) =>
            <>(pc = "sleep" /\ (totals.iterations < MaxIterations => <>(pc = "try"))))
    /\ [][(totals'.iterations # totals.iterations \/ pc' = "try")
            => (pc = "sleep" /\ pc' = "try"
                /\ totals'.iterations = totals.iterations + 1)]_vars

C32_Witness ==
    /\ pc = "try"
    /\ totals.iterations = 3
    /\ totals.errors >= 2
    /\ metrics.reconciliation_count = 2

====
